---- MODULE Spec2Model ----
(***************************************************************************)
(* A model of the weather query service of becoLab: the response           *)
(* normalisation and category enrichment of app/services/weather_service,  *)
(* its default publication date/time resolution, the upstream transport    *)
(* of app/utils/api_client and the asyncio.gather join of the combined     *)
(* query.                                                                  *)
(*                                                                         *)
(* The Korean string literals of the source are written here in English    *)
(* (the module is ASCII); which literal is which is noted where it is      *)
(* used.  Python's None is the value None, a JSON null is the shape        *)
(* "null", a key that a JSON object does not carry is not in the DOMAIN of *)
(* the function that models the object.                                    *)
(***************************************************************************)
EXTENDS Integers, Sequences, FiniteSets, TLC

VARIABLES
    now,        \* the wall clock read by datetime.now(): [day, hour, minute]
    ticks,      \* how many times the clock has advanced (bounded by MaxTicks)
    upstream,   \* what the upstream API answers on each endpoint
    req,        \* the service call in progress: [op, base_date, base_time]
    task,       \* the coroutines of the call: task[1], and task[2] of a combined call
    outer,      \* the future of asyncio.gather in a combined call
    outcome,    \* what the caller of the service got: an envelope, a list or an error
    sent,       \* the GETs issued to the upstream for the call, in order
    summary,    \* the WeatherSummary a summary call builds from the observation
    first,      \* the first fetch the process completed: its kind and its result (history)
    proc        \* the process: its phase, the global _client_instance, the APIClients

vars == <<now, ticks, upstream, req, task, outer, outcome, sent, summary, first, proc>>

-----------------------------------------------------------------------------
(* Bounds of the model *)

\* the longest item list enumerated from a set of items
MaxItems == 2
\* how many times the wall clock advances in a run
MaxTicks == 2
\* how many APIClient objects the process constructs at most
MaxClients == 3

-----------------------------------------------------------------------------
(* Python values *)

None == "<None>"

\* dict.get(key, default): the default only when the key is missing
Get(d, k, default) == IF k \in DOMAIN d THEN d[k] ELSE default

\* {} : an object without keys
EmptyObj == [k \in {} |-> None]

Digit(d) == <<"0", "1", "2", "3", "4", "5", "6", "7", "8", "9">>[d + 1]

\* a mutant of Format02d: no zero padding, f"{n}"
Format02d_NoPad(n) == IF n < 10 THEN Digit(n) ELSE Digit((n \div 10) % 10) \o Digit(n % 10)

\* f"{n:02d}" and strftime's %H, %d: two digits, zero padded
Format02d(n) == Digit((n \div 10) % 10) \o Digit(n % 10)

\* datetime.now().strftime("%Y%m%d"): day d of the model's month
StrftimeYmd(t) == "202401" \o Format02d(t.day)

-----------------------------------------------------------------------------
(* The static tables, weather_service.py lines 17-56 *)

CATEGORY_METADATA ==
    [ T1H |-> [name |-> "temperature",         unit |-> "C"],
      RN1 |-> [name |-> "1h precipitation",    unit |-> "mm"],
      UUU |-> [name |-> "east-west wind",      unit |-> "m/s"],
      VVV |-> [name |-> "north-south wind",    unit |-> "m/s"],
      REH |-> [name |-> "humidity",            unit |-> "%"],
      PTY |-> [name |-> "precipitation type",  unit |-> "code"],
      VEC |-> [name |-> "wind direction",      unit |-> "deg"],
      WSD |-> [name |-> "wind speed",          unit |-> "m/s"],
      SKY |-> [name |-> "sky",                 unit |-> "code"],
      LGT |-> [name |-> "lightning",           unit |-> "kA"],
      TMP |-> [name |-> "temperature",         unit |-> "C"],
      POP |-> [name |-> "precipitation prob.", unit |-> "%"],
      WAV |-> [name |-> "wave height",         unit |-> "M"],
      PCP |-> [name |-> "precipitation",       unit |-> "mm"],
      SNO |-> [name |-> "snowfall",            unit |-> "cm"],
      TMN |-> [name |-> "min temperature",     unit |-> "C"],
      TMX |-> [name |-> "max temperature",     unit |-> "C"] ]

CODE_VALUE_MAPPINGS ==
    [ SKY |-> ("1" :> "clear") @@ ("3" :> "mostly cloudy") @@ ("4" :> "overcast"),
      PTY |-> ("0" :> "none") @@ ("1" :> "rain") @@ ("2" :> "rain/snow")
              @@ ("3" :> "snow") @@ ("4" :> "shower") ]

-----------------------------------------------------------------------------
(* The typed items, app/models/weather.py *)

\* the three enrichment keywords the service passes next to **item_data
EnrichmentFields == {"categoryName", "unit", "valueDescription"}

WeatherItemRequired == {"category", "obsrValue", "baseDate", "baseTime", "nx", "ny"}

ForecastItemRequired ==
    {"category", "fcstValue", "fcstDate", "fcstTime", "baseDate", "baseTime", "nx", "ny"}

\* the field of a raw item that holds its value: obsrValue or fcstValue
ValueKey(kind) == IF kind = "ncst" THEN "obsrValue" ELSE "fcstValue"

RequiredFields(kind) ==
    IF kind = "ncst" THEN WeatherItemRequired ELSE ForecastItemRequired

\* WeatherItem(**item_data, categoryName=, unit=, valueDescription=) and the same
\* for ForecastItem: a keyword given twice is Python's TypeError, a required field
\* that is missing is pydantic's ValidationError, any other key of item_data is
\* ignored by the model class.
ConstructItem(kind, item_data, categoryName, unit, valueDescription) ==
    IF DOMAIN item_data \cap EnrichmentFields # {}
    THEN [exc |-> "TypeError: got multiple values for keyword argument", item |-> EmptyObj]
    ELSE IF ~(RequiredFields(kind) \subseteq DOMAIN item_data)
    THEN [exc |-> "ValidationError: Field required", item |-> EmptyObj]
    ELSE [exc |-> "",
          item |-> [f \in RequiredFields(kind) \cup EnrichmentFields |->
                      CASE f = "categoryName"    -> categoryName
                        [] f = "unit"             -> unit
                        [] f = "valueDescription" -> valueDescription
                        [] OTHER                  -> item_data[f]]]

\* a mutant of MetadataGet: the lookup goes to the observation codes only (the
\* keys of WEATHER_CATEGORY_MAP) instead of the whole table
MetadataGet_ObservationOnly(category, field) ==
    IF category \in {"T1H", "RN1", "UUU", "VVV", "REH", "PTY", "VEC", "WSD"}
    THEN CATEGORY_METADATA[category][field]
    ELSE None

\* a variant in which the first fetch of the process empties the table it reads,
\* so that later fetches find no entry
MetadataGet_EmptiedByFirstFetch(category, field) ==
    IF category \in DOMAIN CATEGORY_METADATA /\ first.kind = "none"
    THEN CATEGORY_METADATA[category][field]
    ELSE None

\* the name (or unit) of a category: CATEGORY_METADATA.get(category, {}).get(field)
MetadataGet(category, field) ==
    IF category \in DOMAIN CATEGORY_METADATA
    THEN CATEGORY_METADATA[category][field]
    ELSE None

\* a mutant of ValueDescription: every coded category is decoded with the
\* precipitation-type table
ValueDescription_OneTable(category, value) ==
    IF category \in DOMAIN CODE_VALUE_MAPPINGS
    THEN Get(CODE_VALUE_MAPPINGS["PTY"], value, None)
    ELSE None

\* value_description: None unless the category has a code table that has the value
ValueDescription(category, value) ==
    IF category \in DOMAIN CODE_VALUE_MAPPINGS
    THEN Get(CODE_VALUE_MAPPINGS[category], value, None)
    ELSE None

\* the body of the loop over items_data: one raw item to one typed item
EnrichItem(kind, item_data) ==
    LET category == Get(item_data, "category", None)
        value    == Get(item_data, ValueKey(kind), None)
    IN  ConstructItem(kind, item_data,
                      MetadataGet(category, "name"),
                      MetadataGet(category, "unit"),
                      ValueDescription(category, value))

\* the loop over items_data: the typed items in upstream order, or the first
\* exception an item raises
RECURSIVE NormalizeItems(_, _)
NormalizeItems(kind, items_data) ==
    IF items_data = <<>>
    THEN [exc |-> "", items |-> <<>>]
    ELSE LET head == EnrichItem(kind, Head(items_data))
             rest == NormalizeItems(kind, Tail(items_data))
         IN  IF head.exc # "" THEN [exc |-> head.exc, items |-> <<>>]
             ELSE IF rest.exc # "" THEN rest
             ELSE [exc |-> "", items |-> <<head.item>> \o rest.items]

-----------------------------------------------------------------------------
(* What a service call gives its caller *)

\* Optional[list]: None, or a list
NoneList == [is_none |-> TRUE, list |-> <<>>]

SomeList(l) == [is_none |-> FALSE, list |-> l]

\* nothing yet: the call has not returned
Pending ==
    [kind |-> "pending", status_code |-> 0, detail |-> "",
     result_code |-> "", result_message |-> "",
     num_of_rows |-> 0, page_no |-> 0, total_count |-> 0,
     items |-> <<>>, forecast_items |-> NoneList]

\* raise HTTPException(status_code=..., detail=...)
HTTPException(status_code, detail) ==
    [Pending EXCEPT !.kind = "error", !.status_code = status_code, !.detail = detail]

\* return WeatherResponse(...): forecast_items keeps its default, None
WeatherResponse(result_code, result_message, num_of_rows, page_no, total_count, items) ==
    [Pending EXCEPT !.kind = "envelope",
                    !.result_code = result_code, !.result_message = result_message,
                    !.num_of_rows = num_of_rows, !.page_no = page_no,
                    !.total_count = total_count, !.items = items]

\* return forecast_items: the forecast operations return the bare list
ForecastList(items) == [Pending EXCEPT !.kind = "list", !.items = items]

-----------------------------------------------------------------------------
(* The upstream transport, app/utils/api_client.py *)

\* APIClient.get: raise_for_status() raises HTTPStatusError on a non-2xx status,
\* the request raises RequestError on a network failure, response.json() raises a
\* ValueError on a body that is not JSON; each is logged and re-raised.  Otherwise
\* the parsed JSON is returned.
APIClient_get(resp) ==
    CASE resp.transport = "http_status" -> [exc |-> "HTTPStatusError", data |-> resp.data]
      [] resp.transport = "network"     -> [exc |-> "RequestError", data |-> resp.data]
      [] resp.transport = "bad_json"    -> [exc |-> "JSONDecodeError", data |-> resp.data]
      [] OTHER                          -> [exc |-> "", data |-> resp.data]

\* a variant that sends the request once more, as a retry would
APIClient_request_Retry(endpoint, base_date, base_time) ==
    LET r == [endpoint |-> endpoint, base_date |-> base_date, base_time |-> base_time]
    IN  <<r, r>>

\* the HTTP requests one call of APIClient.get sends: the single
\* "await self.client.get(url, params=params, headers=headers)" of line 55, with
\* the base_date and base_time of params; no loop, no cache, no use of
\* settings.api_retry_count
APIClient_request(endpoint, base_date, base_time) ==
    << [endpoint |-> endpoint, base_date |-> base_date, base_time |-> base_time] >>

-----------------------------------------------------------------------------
(* The response normaliser: the try block of the three query operations *)

Endpoint(kind) ==
    CASE kind = "ncst" -> "getUltraSrtNcst"
      [] kind = "fcst" -> "getUltraSrtFcst"
      [] OTHER         -> "getVilageFcst"

\* the detail prefix of the catch-all handler of each operation
\* (the source's Korean "... 조회 중 오류가 발생했습니다: ")
ErrorPrefix(kind) ==
    CASE kind = "ncst" -> "error while fetching weather data: "
      [] kind = "fcst" -> "error while fetching forecast data: "
      [] OTHER         -> "error while fetching short-term forecast data: "

\* except Exception as e: raise HTTPException(status_code=500, detail=prefix + str(e))
InternalError(kind, exc) == HTTPException(500, ErrorPrefix(kind) \o exc)

\* raise HTTPException(status_code=502, detail="기상청 API 오류: " + result_msg)
UpstreamError(result_msg) == HTTPException(502, "KMA API error: " \o result_msg)

AttributeError == "AttributeError: 'NoneType' object has no attribute 'get'"

NotIterable == "TypeError: 'NoneType' object is not iterable"

\* response_data = data.get("response", {}); header = response_data.get("header", {})
HeaderShape(data) == IF data.response = "object" THEN data.header ELSE "absent"

HeaderOf(data) == IF HeaderShape(data) = "object" THEN data.headerObj ELSE EmptyObj

\* body = response_data.get("body", {})
BodyShape(data) == IF data.response = "object" THEN data.body ELSE "absent"

BodyOf(data) == IF BodyShape(data) = "object" THEN data.bodyObj ELSE EmptyObj

\* body.get("items", {}) and then .get("item", [])
ItemsShape(data) == IF BodyShape(data) = "object" THEN data.items ELSE "absent"

ItemShape(data) == IF ItemsShape(data) = "object" THEN data.item ELSE "absent"

ItemsData(data) == IF ItemShape(data) = "list" THEN data.list ELSE <<>>

\* a mutant of ResultCode: a header without resultCode counts as a success
ResultCode_DefaultOk(header) == Get(header, "resultCode", "00")

\* result_code = header.get("resultCode", "")
ResultCode(header) == Get(header, "resultCode", "")

\* result_msg = header.get("resultMsg", "")
ResultMsg(header) == Get(header, "resultMsg", "")

\* lines 125-168 (and 290-326, 460-496): parse the JSON the transport returned
ParseResponse(kind, data) ==
    LET header     == HeaderOf(data)
        body       == BodyOf(data)
        result_code == ResultCode(header)
        result_msg  == ResultMsg(header)
        normalized == NormalizeItems(kind, ItemsData(data))
    IN  IF data.response = "null" \/ HeaderShape(data) = "null"
        THEN InternalError(kind, AttributeError)
        ELSE IF result_code # "00"
        THEN UpstreamError(result_msg)
        ELSE IF BodyShape(data) = "null" \/ ItemsShape(data) = "null"
        THEN InternalError(kind, AttributeError)
        ELSE IF ItemShape(data) = "null"
        THEN InternalError(kind, NotIterable)
        ELSE IF normalized.exc # ""
        THEN InternalError(kind, normalized.exc)
        ELSE IF kind = "ncst"
        THEN WeatherResponse(result_code, result_msg,
                             Get(body, "numOfRows", 0), Get(body, "pageNo", 1),
                             Get(body, "totalCount", 0), normalized.items)
        ELSE ForecastList(normalized.items)

\* the try/except of a query operation from the await of client.get on: what the
\* operation returns or raises for the upstream's answer
HandleResponse(kind, resp) ==
    LET got == APIClient_get(resp)
    IN  IF got.exc # ""
        THEN InternalError(kind, got.exc)
        ELSE ParseResponse(kind, got.data)

-----------------------------------------------------------------------------
(* The default publication date and time of each operation *)

\* a mutant of VilageBaseTime: the comparisons include the slot's own hour
VilageBaseTime_Inclusive(hour) ==
    IF hour <= 2 THEN "2300"
    ELSE IF hour <= 5 THEN "0200"
    ELSE IF hour <= 8 THEN "0500"
    ELSE IF hour <= 11 THEN "0800"
    ELSE IF hour <= 14 THEN "1100"
    ELSE IF hour <= 17 THEN "1400"
    ELSE IF hour <= 20 THEN "1700"
    ELSE IF hour <= 23 THEN "2000"
    ELSE "2300"

\* lines 425-442: the most recent of the eight publication slots of the 3-day forecast
VilageBaseTime(hour) ==
    IF hour < 2 THEN "2300"
    ELSE IF hour < 5 THEN "0200"
    ELSE IF hour < 8 THEN "0500"
    ELSE IF hour < 11 THEN "0800"
    ELSE IF hour < 14 THEN "1100"
    ELSE IF hour < 17 THEN "1400"
    ELSE IF hour < 20 THEN "1700"
    ELSE IF hour < 23 THEN "2000"
    ELSE "2300"

\* f"{current_time.hour:02d}00" of the current observation (line 107)
NcstBaseTime(hour) == Format02d(hour) \o "00"

\* a mutant of FcstBaseTime: the forecast is asked for on the hour
FcstBaseTime_OnTheHour(hour) == Format02d(hour) \o "00"

\* f"{current_time.hour:02d}30" of the short-range forecast (line 272)
FcstBaseTime(hour) == Format02d(hour) \o "30"

\* what "if base_time is None:" assigns, from the clock value t it reads
DefaultBaseTime(kind, t) ==
    CASE kind = "ncst" -> NcstBaseTime(t.hour)
      [] kind = "fcst" -> FcstBaseTime(t.hour)
      [] OTHER         -> VilageBaseTime(t.hour)

\* a variant that takes the day before when the slot is the last of the day before
DefaultBaseDate_RolledBack(t) ==
    IF t.hour < 2 THEN StrftimeYmd([t EXCEPT !.day = t.day - 1]) ELSE StrftimeYmd(t)

\* what "if base_date is None:" assigns, from the clock value t it reads
DefaultBaseDate(t) == StrftimeYmd(t)

\* "if base_date is None: ..." (lines 101-102, 265-266, 416-417): the base_date
\* an operation goes on with
ResolveBaseDate(base_date, t) ==
    IF base_date = None THEN DefaultBaseDate(t) ELSE base_date

\* a variant that resolves the time from the clock whatever the caller supplied
ResolveBaseTime_FromClock(kind, base_time, t) == DefaultBaseTime(kind, t)

\* "if base_time is None: ..." (lines 104-107, 269-272, 419-442): the base_time
\* an operation goes on with
ResolveBaseTime(kind, base_time, t) ==
    IF base_time = None THEN DefaultBaseTime(kind, t) ELSE base_time

-----------------------------------------------------------------------------
(* The inputs: the caller's parameters and the upstream's answers *)

Ops == {"ncst", "fcst", "vilage", "combined", "summary"}

\* the base_date and base_time a caller may supply (None: omitted)
BaseDates == {None, "20231110"}

BaseTimes == {None, "0600"}

TaskIds == {1, 2}

\* the minutes of the hour the model's clock shows
Minutes == {15, 59}

SeqsUpTo(S, n) == UNION {[1..k -> S] : k \in 0..n}

\* an item of an upstream list before it is rendered for an endpoint
Item(category, value, shape) == [category |-> category, value |-> value, shape |-> shape]

\* well-formed items: a category without a code table, a code the table has, a
\* code it has not, a category the metadata table has not
PlainItems ==
    { Item("T1H", "15.0", "plain"), Item("PTY", "1", "plain"),
      Item("SKY", "2", "plain"),    Item("ZZZ", "1", "plain") }

\* an item that already carries one of the enrichment fields
OddItems == { Item("REH", "70", "carries_categoryName") }

\* the item as the endpoint of the given kind sends it (section 6 of the spec:
\* category, obsrValue or fcstValue, baseDate, baseTime, fcstDate, fcstTime, nx, ny)
RawItem(kind, p) ==
    LET baseDate == IF p.shape = "later" THEN "20240102" ELSE "20240101"
        base == IF kind = "ncst"
                THEN [category |-> p.category, obsrValue |-> p.value,
                      baseDate |-> baseDate,
                      baseTime |-> IF p.shape = "later" THEN "0800" ELSE "0700",
                      nx |-> 60, ny |-> 127]
                ELSE [category |-> p.category, fcstValue |-> p.value,
                      fcstDate |-> baseDate, fcstTime |-> "0800",
                      baseDate |-> baseDate, baseTime |-> "0630",
                      nx |-> 60, ny |-> 127]
    IN  IF p.shape = "carries_categoryName"
        THEN ("categoryName" :> "humidity") @@ base
        ELSE base

\* an upstream answer: how the transport ended and, when it returned JSON, the
\* envelope {response: {header: {...}, body: {..., items: {item: [...]}}}}
Answer(transport, response, header, headerObj, body, items, item, list) ==
    [transport |-> transport,
     data |-> [response |-> response, header |-> header, headerObj |-> headerObj,
               body |-> body,
               bodyObj |-> [numOfRows |-> 1000, pageNo |-> 1, totalCount |-> Len(list)],
               items |-> items, item |-> item, list |-> list]]

Header(code, msg) == [resultCode |-> code, resultMsg |-> msg]

\* resultCode "00" with the given items
Ok(list) ==
    Answer("ok", "object", "object", Header("00", "NORMAL_SERVICE"),
           "object", "object", "list", list)

\* a resultCode other than "00", with or without items
Refused(headerObj, list) ==
    Answer("ok", "object", "object", headerObj, "object", "object", "list", list)

\* the transport failed: no JSON
Failed(transport) ==
    Answer(transport, "absent", "absent", EmptyObj, "absent", "absent", "absent", <<>>)

TransportFailures == {"http_status", "network", "bad_json"}

\* answers whose header says anything but "00", or says nothing
RefusedAnswers ==
    { Refused(Header("03", "NO_DATA"), <<>>),
      Refused(Header("99", "UNKNOWN_ERROR"), <<Item("T1H", "15.0", "plain")>>),
      Refused([resultCode |-> "30"], <<>>),
      Refused([resultMsg |-> "NORMAL_SERVICE"], <<>>),
      Answer("ok", "object", "absent", EmptyObj, "object", "object", "list", <<>>),
      Answer("ok", "absent", "absent", EmptyObj, "absent", "absent", "absent", <<>>) }

\* envelopes with a null where an object is expected
MalformedAnswers ==
    { Answer("ok", "null", "absent", EmptyObj, "absent", "absent", "absent", <<>>),
      Answer("ok", "object", "null", EmptyObj, "object", "object", "list", <<>>) }

\* resultCode "00" with the item list missing somewhere on the way to it
ListlessAnswers ==
    { Answer("ok", "object", "object", Header("00", "NORMAL_SERVICE"), b, is, i, <<>>) :
        <<b, is, i>> \in { <<"absent", "absent", "absent">>,
                           <<"object", "absent", "absent">>,
                           <<"object", "object", "absent">>,
                           <<"object", "null", "absent">>,
                           <<"null", "absent", "absent">> } }

\* every answer the model's upstream may give
Answers ==
    { Ok(l) : l \in SeqsUpTo(PlainItems \cup OddItems, MaxItems) }
    \cup RefusedAnswers \cup MalformedAnswers \cup ListlessAnswers
    \cup { Failed(tr) : tr \in TransportFailures }

\* the answers of the join's two fetches: lists of each length, a refusal, a
\* transport failure
FewAnswers ==
    { Ok(l) : l \in SeqsUpTo({Item("T1H", "15.0", "plain"), Item("PTY", "1", "plain")},
                             MaxItems) }
    \cup { Refused(Header("03", "NO_DATA"), <<>>), Failed("network") }

\* the answer a as the endpoint of the given kind sends it
Serve(kind, a) ==
    [a EXCEPT !.data.list = [i \in 1..Len(a.data.list) |-> RawItem(kind, a.data.list[i])]]

\* the upstream: the answer of each endpoint
Upstream(ncst, fcst, vilage) ==
    (Endpoint("ncst") :> Serve("ncst", ncst)) @@ (Endpoint("fcst") :> Serve("fcst", fcst))
    @@ (Endpoint("vilage") :> Serve("vilage", vilage))

-----------------------------------------------------------------------------
(* The state of a call *)

\* a coroutine of a query operation: where it is, its base_date and base_time
\* (the parameters, then the resolved values), what it returned or raised
IdleTask ==
    [kind |-> "none", pc |-> "idle", base_date |-> None, base_time |-> None,
     result |-> Pending]

StartTask(kind, base_date, base_time) ==
    [kind |-> kind, pc |-> "start", base_date |-> base_date, base_time |-> base_time,
     result |-> Pending]

NoRequest == [op |-> "none", base_date |-> None, base_time |-> None]

\* the outer future of gather: its state, its exception, and the children done so
\* far in the order they finished (gather's nfinished is the length)
NoGather == [state |-> "none", exc |-> Pending, order |-> <<>>]

PendingGather == [state |-> "pending", exc |-> Pending, order |-> <<>>]

\* the event loop runs one coroutine at a time: a coroutine runs from its start to
\* its await of client.get without a switch, and the tasks of gather start in the
\* order of its arguments
CanRun(t) ==
    \A u \in TaskIds \ {t} :
        /\ task[u].pc # "date"
        /\ (u < t => task[u].pc # "start")

-----------------------------------------------------------------------------
(* asyncio.gather(ncst_task, fcst_task), return_exceptions=False *)

\* a mutant of GatherDone, a race: the outer future gets its result when the
\* first child is done
GatherDone_FirstCompleted(g, t, result) ==
    LET order == Append(g.order, t)
    IN  IF g.state # "pending" THEN [g EXCEPT !.order = order]
        ELSE IF result.kind = "error"
        THEN [state |-> "exception", exc |-> result, order |-> order]
        ELSE [state |-> "result", exc |-> Pending, order |-> order]

\* a mutant of GatherDone, return_exceptions=True: a child's exception is one of
\* the results
GatherDone_ReturnExceptions(g, t, result) ==
    LET order == Append(g.order, t)
    IN  IF g.state # "pending" THEN [g EXCEPT !.order = order]
        ELSE IF Len(order) = Cardinality(TaskIds)
        THEN [state |-> "result", exc |-> Pending, order |-> order]
        ELSE [g EXCEPT !.order = order]

\* a mutant of GatherDone: the first exception is kept until every child is done
GatherDone_WaitAll(g, t, result) ==
    LET order == Append(g.order, t)
        exc   == IF g.exc.kind = "pending" /\ result.kind = "error" THEN result ELSE g.exc
    IN  IF g.state # "pending" THEN [g EXCEPT !.order = order]
        ELSE IF Len(order) < Cardinality(TaskIds)
        THEN [state |-> "pending", exc |-> exc, order |-> order]
        ELSE IF exc.kind = "error"
        THEN [state |-> "exception", exc |-> exc, order |-> order]
        ELSE [state |-> "result", exc |-> Pending, order |-> order]

\* the done callback of child t of gather: the child is counted; the first
\* exception of a child is set on the outer future at once, the results are set
\* when the last child is done, and once the outer future is done a child's
\* outcome is dropped
GatherDone(g, t, result) ==
    LET order == Append(g.order, t)
    IN  IF g.state # "pending" THEN [g EXCEPT !.order = order]
        ELSE IF result.kind = "error"
        THEN [state |-> "exception", exc |-> result, order |-> order]
        ELSE IF Len(order) = Cardinality(TaskIds)
        THEN [state |-> "result", exc |-> Pending, order |-> order]
        ELSE [g EXCEPT !.order = order]

\* lines 382-387: the await of gather raises the outer future's exception, or
\* gives both results, and the forecast list is attached to the observation envelope
get_combined_weather(g, ncst_response, fcst_items) ==
    IF g.state = "exception"
    THEN g.exc
    ELSE [ncst_response EXCEPT !.forecast_items = SomeList(fcst_items.items)]

-----------------------------------------------------------------------------
(* The summary, get_weather_summary *)

\* line 59: the names of the observation categories
WEATHER_CATEGORY_MAP ==
    [k \in {"T1H", "RN1", "UUU", "VVV", "REH", "PTY", "VEC", "WSD"} |->
        CATEGORY_METADATA[k].name]

\* a variant that keeps the value a key already has (setdefault)
DictPut_KeepExisting(d, k, v) ==
    [x \in DOMAIN d \cup {k} |-> IF x \in DOMAIN d THEN d[x] ELSE v]

\* d[k] = v of a dict
DictPut(d, k, v) == [x \in DOMAIN d \cup {k} |-> IF x = k THEN v ELSE d[x]]

\* lines 205-209: weather_data[item.category] = item.obsrValue, item after item
RECURSIVE WeatherData(_)
WeatherData(items) ==
    IF items = <<>> THEN EmptyObj
    ELSE LET n == Len(items)
         IN  DictPut(WeatherData(SubSeq(items, 1, n - 1)),
                     items[n].category, items[n].obsrValue)

\* a variant that lists only the categories the name table has
Categories_NamedOnly(weather_data) ==
    [cat \in DOMAIN weather_data \cap DOMAIN WEATHER_CATEGORY_MAP |->
        [value |-> weather_data[cat], description |-> WEATHER_CATEGORY_MAP[cat]]]

\* lines 228-234: raw_data["categories"]
Categories(weather_data) ==
    [cat \in DOMAIN weather_data |->
        [value |-> weather_data[cat],
         description |-> Get(WEATHER_CATEGORY_MAP, cat, cat)]]

\* datetime.now().strftime("%H00")
StrftimeH00(t) == Format02d(t.hour) \o "00"

\* a variant that prefers the caller's date to the first item's
UsedBaseDate_CallerFirst(items, base_date, t) ==
    IF base_date # None THEN base_date
    ELSE IF items # <<>> THEN items[1].baseDate
    ELSE StrftimeYmd(t)

\* line 213: first_item.baseDate if first_item else base_date or now's date
UsedBaseDate(items, base_date, t) ==
    IF items # <<>> THEN items[1].baseDate
    ELSE IF base_date # None THEN base_date
    ELSE StrftimeYmd(t)

\* line 214: first_item.baseTime if first_item else base_time or now's hour
UsedBaseTime(items, base_time, t) ==
    IF items # <<>> THEN items[1].baseTime
    ELSE IF base_time # None THEN base_time
    ELSE StrftimeH00(t)

\* the summary call before it has an observation: pc is where it is in lines
\* 205-237 ("none", "items": the observation returned, "date": line 213 done,
\* "done": the WeatherSummary is built)
NoSummary ==
    [pc |-> "none", location |-> "", base_date |-> None, base_time |-> None,
     temperature |-> None, humidity |-> None, precipitation |-> None,
     wind_direction |-> None, wind_speed |-> None,
     raw_data |-> [total_count |-> 0, categories |-> EmptyObj]]

\* lines 216-235: WeatherSummary(...), of the grid point nx 60, ny 127
WeatherSummary(base_date, base_time, weather_response) ==
    LET weather_data == WeatherData(weather_response.items)
    IN  [pc |-> "done", location |-> "nx:60, ny:127",
         base_date |-> base_date, base_time |-> base_time,
         temperature |-> Get(weather_data, "T1H", None),
         humidity |-> Get(weather_data, "REH", None),
         precipitation |-> Get(weather_data, "RN1", None),
         wind_direction |-> Get(weather_data, "VEC", None),
         wind_speed |-> Get(weather_data, "WSD", None),
         raw_data |-> [total_count |-> weather_response.total_count,
                       categories |-> Categories(weather_data)]]

\* the first fetch the process completed (none yet): its kind, the operation
\* that made it and what it returned or raised
NoFirst == [kind |-> "none", op |-> "none", result |-> Pending]

-----------------------------------------------------------------------------
(* The process and the global transport client, api_client.py lines 121-147 *)

Clients == 1..MaxClients

\* the coroutines that may run close_api_client
Closers == {1, 2}

\* the process as main.py is imported, before weather_service.py line 509:
\* client_instance is _client_instance (0: None), created counts the APIClient
\* objects constructed (they are numbered in that order), closes[i] is how many
\* times close() was called on APIClient i and closed[i] whether its aclose()
\* has returned, closer[c] is the APIClient whose close() coroutine c awaits in
\* close_api_client (0: c is not in it), service_client is weather_service.client,
\* got is the last return of get_api_client: the APIClient and its closes then
LoadedProc ==
    [phase |-> "import", client_instance |-> 0, created |-> 0,
     closes |-> [i \in Clients |-> 0], closed |-> [i \in Clients |-> FALSE],
     closer |-> [c \in Closers |-> 0], service_client |-> 0,
     got |-> [instance |-> 0, closes |-> 0]]

\* get_api_client (lines 125-139): construct when the global is None, return it
get_api_client(p) ==
    LET q == IF p.client_instance = 0
             THEN [p EXCEPT !.created = p.created + 1,
                            !.client_instance = p.created + 1]
             ELSE p
    IN  [q EXCEPT !.got = [instance |-> q.client_instance,
                           closes |-> q.closes[q.client_instance]]]

\* WeatherService.__init__ (lines 67-72) run by line 509 at import:
\* self.client = get_api_client(...)
WeatherService_init(p) ==
    LET q == get_api_client(p)
    IN  [q EXCEPT !.phase = "serving", !.service_client = q.got.instance]

\* the process while it serves requests
ServingProc == WeatherService_init(LoadedProc)

-----------------------------------------------------------------------------
(* The actions *)

\* a caller calls one of the operations of the service
NewRequest(op, base_date, base_time) ==
    /\ req.op = "none" \/ outcome.kind # "pending"
    /\ \A t \in TaskIds : task[t].pc \in {"idle", "done"}
    /\ req' = [op |-> op, base_date |-> base_date, base_time |-> base_time]
    /\ task' = [t \in TaskIds |->
                  IF t = 1
                  THEN StartTask(IF op \in {"combined", "summary"} THEN "ncst" ELSE op,
                                 base_date, base_time)
                  ELSE IF op = "combined"
                  THEN StartTask("fcst", base_date, base_time)
                  ELSE IdleTask]
    /\ outer' = IF op = "combined" THEN PendingGather ELSE NoGather
    /\ outcome' = Pending
    /\ sent' = <<>>
    /\ summary' = NoSummary
    /\ UNCHANGED <<now, ticks, upstream, first, proc>>

\* "if base_date is None: base_date = datetime.now().strftime(...)"
ResolveDate(t) ==
    /\ task[t].pc = "start"
    /\ CanRun(t)
    /\ task' = [task EXCEPT
                  ![t].base_date = ResolveBaseDate(task[t].base_date, now),
                  ![t].pc = "date"]
    /\ UNCHANGED <<now, ticks, upstream, req, outer, outcome, sent, summary, first, proc>>

\* "if base_time is None: ..." with a second read of the clock, then the params
\* and the call of client.get with them, up to its await of the network
ResolveTimeAndGet(t) ==
    /\ task[t].pc = "date"
    /\ LET base_time == ResolveBaseTime(task[t].kind, task[t].base_time, now)
       IN  /\ task' = [task EXCEPT ![t].base_time = base_time, ![t].pc = "await"]
           /\ sent' = sent \o APIClient_request(Endpoint(task[t].kind),
                                                task[t].base_date, base_time)
    /\ UNCHANGED <<now, ticks, upstream, req, outer, outcome, summary, first, proc>>

\* the upstream answers a coroutine's GET: the coroutine runs to its return or
\* raise; a single operation hands that to its caller, a child of gather to
\* gather's callback
Complete(t) ==
    /\ task[t].pc = "await"
    /\ \A u \in TaskIds \ {t} : task[u].pc # "date"
    /\ LET result == HandleResponse(task[t].kind, upstream[Endpoint(task[t].kind)])
       IN  /\ task' = [task EXCEPT ![t].result = result, ![t].pc = "done"]
           /\ IF req.op = "combined"
              THEN /\ outer' = GatherDone(outer, t, result)
                   /\ UNCHANGED <<outcome, summary>>
              ELSE IF req.op = "summary" /\ result.kind = "envelope"
              THEN /\ summary' = [NoSummary EXCEPT !.pc = "items"]
                   /\ UNCHANGED <<outcome, outer>>
              ELSE /\ outcome' = result
                   /\ UNCHANGED <<outer, summary>>
           /\ first' = IF first.kind = "none"
                       THEN [kind |-> task[t].kind, op |-> req.op, result |-> result]
                       ELSE first
    /\ UNCHANGED <<now, ticks, upstream, req, sent, proc>>

\* the combined call resumes from its await of gather
CombinedResume ==
    /\ req.op = "combined"
    /\ outcome.kind = "pending"
    /\ outer.state \in {"result", "exception"}
    /\ \A u \in TaskIds : task[u].pc \notin {"start", "date"}
    /\ outcome' = get_combined_weather(outer, task[1].result, task[2].result)
    /\ UNCHANGED <<now, ticks, upstream, req, task, outer, sent, summary, first, proc>>

\* the summary call resumes with the observation: lines 205-213, with the read
\* of the clock of line 213
SummaryBaseDate ==
    /\ summary.pc = "items"
    /\ summary' = [summary EXCEPT
                     !.pc = "date",
                     !.base_date = UsedBaseDate(task[1].result.items, req.base_date, now)]
    /\ UNCHANGED <<now, ticks, upstream, req, task, outer, outcome, sent, first, proc>>

\* lines 214-237, with the read of the clock of line 214: the summary is returned
SummaryBaseTime ==
    /\ summary.pc = "date"
    /\ summary' = WeatherSummary(summary.base_date,
                                 UsedBaseTime(task[1].result.items, req.base_time, now),
                                 task[1].result)
    /\ outcome' = [Pending EXCEPT !.kind = "summary"]
    /\ UNCHANGED <<now, ticks, upstream, req, task, outer, sent, first, proc>>

\* time passes: to the next minute the model's clock shows
Tick ==
    /\ ticks < MaxTicks
    /\ ticks' = ticks + 1
    /\ now' = IF now.minute = 15 THEN [now EXCEPT !.minute = 59]
              ELSE IF now.hour < 23
              THEN [now EXCEPT !.hour = now.hour + 1, !.minute = 15]
              ELSE [day |-> now.day + 1, hour |-> 0, minute |-> 15]
    /\ UNCHANGED <<upstream, req, task, outer, outcome, sent, summary, first, proc>>

Next ==
    \/ \E op \in Ops, base_date \in BaseDates, base_time \in BaseTimes :
          NewRequest(op, base_date, base_time)
    \/ \E t \in TaskIds : ResolveDate(t)
    \/ \E t \in TaskIds : ResolveTimeAndGet(t)
    \/ \E t \in TaskIds : Complete(t)
    \/ CombinedResume
    \/ SummaryBaseDate
    \/ SummaryBaseTime
    \/ Tick

-----------------------------------------------------------------------------
(* The specifications *)

\* what every specification starts from: no call yet
InitCall ==
    /\ ticks = 0
    /\ req = NoRequest
    /\ task = [t \in TaskIds |-> IdleTask]
    /\ outer = NoGather
    /\ outcome = Pending
    /\ sent = <<>>
    /\ summary = NoSummary
    /\ first = NoFirst
    /\ proc = ServingProc

\* the normaliser: every answer, the same on each endpoint, from 07:15 on
Init ==
    /\ InitCall
    /\ now = [day |-> 1, hour |-> 7, minute |-> 15]
    /\ \E a \in Answers : upstream = Upstream(a, a, a)

Spec == Init /\ [][Next]_vars

\* the join: the two fetches of the combined call answered independently
InitJoin ==
    /\ InitCall
    /\ now = [day |-> 1, hour |-> 7, minute |-> 15]
    /\ \E a \in FewAnswers, b \in FewAnswers : upstream = Upstream(a, b, b)

SpecJoin == InitJoin /\ [][Next]_vars

\* the clock: a call at every hour of the day
InitClock ==
    /\ InitCall
    /\ \E h \in 0..23, m \in Minutes : now = [day |-> 1, hour |-> h, minute |-> m]
    /\ upstream = Upstream(Ok(<<Item("T1H", "15.0", "plain")>>),
                           Ok(<<Item("SKY", "1", "plain")>>),
                           Ok(<<Item("TMP", "3", "plain")>>))

SpecClock == InitClock /\ [][Next]_vars

\* the items of the summary's observations: a category twice with two values, the
\* second from a later publication, and a category the name table of line 59 lacks
SummaryItems ==
    { Item("T1H", "15.0", "plain"), Item("T1H", "16.5", "later"),
      Item("REH", "70", "later"),   Item("SKY", "1", "plain") }

\* the observation of the five summarised categories (the spec's example)
FullList ==
    << Item("T1H", "15.0", "plain"), Item("REH", "70", "plain"),
       Item("RN1", "0", "plain"),    Item("VEC", "270", "plain"),
       Item("WSD", "2.3", "plain") >>

SummaryAnswers ==
    { Ok(l) : l \in SeqsUpTo(SummaryItems, MaxItems) \cup {FullList} }
    \cup { Refused(Header("03", "NO_DATA"), <<>>), Failed("network") }

\* the summary: observations of every mix of categories, from 07:15 and from
\* 23:59 (the day changes at the first advance of the clock)
InitSummary ==
    /\ InitCall
    /\ \E t \in {<<7, 15>>, <<23, 59>>} : now = [day |-> 1, hour |-> t[1], minute |-> t[2]]
    /\ \E a \in SummaryAnswers : upstream = Upstream(a, Ok(<<>>), Ok(<<>>))

SpecSummary == InitSummary /\ [][Next]_vars

-----------------------------------------------------------------------------
(* The life of the process and of the global transport client *)

\* main.py is imported: weather_service.py line 509 constructs the service, whose
\* __init__ takes the client from get_api_client
ImportService ==
    /\ proc.phase = "import"
    /\ proc' = WeatherService_init(proc)
    /\ UNCHANGED <<now, ticks, upstream, req, task, outer, outcome, sent, summary, first>>

\* some code of the process calls get_api_client
CallGetApiClient ==
    /\ proc.phase = "serving"
    /\ proc.client_instance # 0 \/ proc.created < MaxClients
    /\ proc' = get_api_client(proc)
    /\ UNCHANGED <<now, ticks, upstream, req, task, outer, outcome, sent, summary, first>>

\* coroutine c calls close_api_client (lines 142-146): the global is not None, so
\* it calls close() on it and is suspended in the await of aclose(); with the
\* global None the call returns at once and changes nothing
close_api_client(c) ==
    /\ proc.phase = "serving"
    /\ proc.closer[c] = 0
    /\ proc.client_instance # 0
    /\ proc' = [proc EXCEPT !.closes[proc.client_instance] = @ + 1,
                            !.closer[c] = proc.client_instance]
    /\ UNCHANGED <<now, ticks, upstream, req, task, outer, outcome, sent, summary, first>>

\* aclose() returns and coroutine c goes on to line 147: _client_instance = None
close_api_client_resume(c) ==
    /\ proc.phase = "serving"
    /\ proc.closer[c] # 0
    /\ proc' = [proc EXCEPT !.closed[proc.closer[c]] = TRUE,
                            !.client_instance = 0,
                            !.closer[c] = 0]
    /\ UNCHANGED <<now, ticks, upstream, req, task, outer, outcome, sent, summary, first>>

\* the process shuts down: main.py registers no shutdown handler and no lifespan,
\* so nothing runs
Shutdown ==
    /\ proc.phase = "serving"
    /\ proc' = [proc EXCEPT !.phase = "exited"]
    /\ UNCHANGED <<now, ticks, upstream, req, task, outer, outcome, sent, summary, first>>

NextClient ==
    \/ ImportService
    \/ CallGetApiClient
    \/ \E c \in Closers : close_api_client(c)
    \/ \E c \in Closers : close_api_client_resume(c)
    \/ Shutdown

\* the process from its import on, no request in it
InitClient ==
    /\ ticks = 0
    /\ req = NoRequest
    /\ task = [t \in TaskIds |-> IdleTask]
    /\ outer = NoGather
    /\ outcome = Pending
    /\ sent = <<>>
    /\ summary = NoSummary
    /\ first = NoFirst
    /\ now = [day |-> 1, hour |-> 7, minute |-> 15]
    /\ upstream = Upstream(Ok(<<>>), Ok(<<>>), Ok(<<>>))
    /\ proc = LoadedProc

SpecClient == InitClient /\ [][NextClient]_vars

-----------------------------------------------------------------------------
(* The claims *)

\* the answer the upstream gives a coroutine of the given kind
AnswerOf(kind) == upstream[Endpoint(kind)]

\* the header of the envelope d carries no resultCode "00": it is missing, or has
\* no resultCode, or another one (an envelope with a null is another matter)
NotSuccess(d) ==
    /\ d.response # "null"
    /\ d.header # "null"
    /\ \/ d.response = "absent"
       \/ d.header = "absent"
       \/ "resultCode" \notin DOMAIN d.headerObj
       \/ d.headerObj.resultCode # "00"

\* the resultMsg the envelope d carries, "" when it carries none
MessageOf(d) ==
    IF d.response = "object" /\ d.header = "object" /\ "resultMsg" \in DOMAIN d.headerObj
    THEN d.headerObj.resultMsg
    ELSE ""

\* the envelope d says "00" and carries a list of items
SuccessWithList(d) ==
    /\ d.response = "object" /\ d.header = "object"
    /\ "resultCode" \in DOMAIN d.headerObj
    /\ d.headerObj.resultCode = "00"
    /\ d.body = "object" /\ d.items = "object" /\ d.item = "list"

\* C1: for each of the three query operations, an upstream answer whose header
\* resultCode is not "00" (a missing header or resultCode included) makes the
\* operation raise the 502 error that carries the upstream resultMsg, and no
\* envelope or list is returned; every envelope ever returned has result_code "00".
C1_NotSuccessRaisesBadGateway ==
    /\ \A t \in TaskIds :
          (task[t].pc = "done" /\ AnswerOf(task[t].kind).transport = "ok"
             /\ NotSuccess(AnswerOf(task[t].kind).data))
          => task[t].result =
                [Pending EXCEPT !.kind = "error", !.status_code = 502,
                                !.detail = "KMA API error: "
                                           \o MessageOf(AnswerOf(task[t].kind).data)]
    /\ \A t \in TaskIds :
          task[t].result.kind = "envelope" => task[t].result.result_code = "00"
    /\ outcome.kind = "envelope" => outcome.result_code = "00"

\* C1's case: the 3-day forecast answered by an envelope without a header
C1_Witness ==
    /\ req.op = "vilage"
    /\ task[1].pc = "done"
    /\ AnswerOf("vilage").data.response = "object"
    /\ AnswerOf("vilage").data.header = "absent"
    /\ outcome.kind = "error" /\ outcome.status_code = 502

\* the keys of the Category Metadata Table
MetadataCodes ==
    {"T1H", "RN1", "UUU", "VVV", "REH", "PTY", "VEC", "WSD", "SKY", "LGT",
     "TMP", "POP", "WAV", "PCP", "SNO", "TMN", "TMX"}

\* a well-formed raw observation item: the six fields of the upstream's shape
WellFormedObservation(item) ==
    DOMAIN item = {"category", "obsrValue", "baseDate", "baseTime", "nx", "ny"}

\* C2: resultCode "00" with a list of N well-formed items makes the current
\* observation return an envelope of exactly N items in the upstream order,
\* each with categoryName and unit present exactly when its category is a key
\* of the Category Metadata Table.
C2_ObservationItemsEnriched ==
    LET d == AnswerOf("ncst").data
    IN  (/\ req.op = "ncst" /\ outcome.kind # "pending"
         /\ AnswerOf("ncst").transport = "ok"
         /\ SuccessWithList(d)
         /\ \A i \in 1..Len(d.list) : WellFormedObservation(d.list[i]))
        => /\ outcome.kind = "envelope"
           /\ Len(outcome.items) = Len(d.list)
           /\ \A i \in 1..Len(d.list) :
                 /\ outcome.items[i].category = d.list[i].category
                 /\ outcome.items[i].obsrValue = d.list[i].obsrValue
                 /\ (outcome.items[i].categoryName # None)
                       <=> (d.list[i].category \in MetadataCodes)
                 /\ (outcome.items[i].unit # None)
                       <=> (d.list[i].category \in MetadataCodes)

\* C2's case: two items, the first of an unknown category, the second of a known one
C2_Witness ==
    /\ req.op = "ncst" /\ outcome.kind = "envelope"
    /\ Len(outcome.items) = 2
    /\ outcome.items[1].category = "ZZZ" /\ outcome.items[1].categoryName = None
    /\ outcome.items[2].category = "SKY" /\ outcome.items[2].categoryName # None

\* the values each enum-decode table has
DecodeKeys == [SKY |-> {"1", "3", "4"}, PTY |-> {"0", "1", "2", "3", "4"}]

\* the raw value of a raw or typed item
RawValue(item) ==
    IF "obsrValue" \in DOMAIN item THEN item.obsrValue ELSE item.fcstValue

\* C3: an item of a category with an enum-decode table (SKY, PTY) whose raw
\* value is a key of the table gets the table's non-empty description; an item
\* with any other value, or of a category without a table, gets no description,
\* and nothing is raised for it.
C3_ValueDescriptionDecoded ==
    \A t \in TaskIds :
        LET a == AnswerOf(task[t].kind)
            wellFormed == \A i \in 1..Len(a.data.list) :
                              DOMAIN a.data.list[i] \cap EnrichmentFields = {}
        IN  (task[t].pc = "done" /\ a.transport = "ok" /\ SuccessWithList(a.data)
               /\ wellFormed)
            => /\ task[t].result.kind \in {"envelope", "list"}
               /\ Len(task[t].result.items) = Len(a.data.list)
               /\ \A i \in 1..Len(a.data.list) :
                     LET c == a.data.list[i].category
                         v == RawValue(a.data.list[i])
                         described == task[t].result.items[i].valueDescription
                     IN  IF c \in DOMAIN DecodeKeys /\ v \in DecodeKeys[c]
                         THEN described \notin {None, ""}
                         ELSE described = None

\* C3's case: a forecast list with a decoded PTY value and a SKY value the
\* table has not
C3_Witness ==
    \E t \in TaskIds :
        /\ task[t].kind = "fcst" /\ task[t].result.kind = "list"
        /\ Len(task[t].result.items) = 2
        /\ task[t].result.items[1].category = "PTY"
        /\ task[t].result.items[1].valueDescription = "rain"
        /\ task[t].result.items[2].category = "SKY"
        /\ task[t].result.items[2].fcstValue = "2"
        /\ task[t].result.items[2].valueDescription = None

\* C4: a failure of the upstream transport (a non-2xx status, a network failure,
\* a body that is not JSON) reaches the caller of every query operation as a
\* gateway failure, HTTP 502.
C4_TransportFailureIsBadGateway ==
    \A t \in TaskIds :
        (task[t].pc = "done" /\ AnswerOf(task[t].kind).transport # "ok")
        => (task[t].result.kind = "error" /\ task[t].result.status_code = 502)

\* the typed items are the raw items, one for one and in order
ItemsMatch(items, raw, valueKey) ==
    /\ Len(items) = Len(raw)
    /\ \A i \in 1..Len(raw) :
          /\ valueKey \in DOMAIN items[i]
          /\ items[i].category = raw[i].category
          /\ items[i][valueKey] = raw[i][valueKey]

\* the upstream answers the fetch of the given kind with "00" and a list
Succeeds(kind) ==
    AnswerOf(kind).transport = "ok" /\ SuccessWithList(AnswerOf(kind).data)

\* C5: the combined query is a join: when both sub-calls succeed it returns only
\* after both are done, and, in either order of completion, its items are the
\* observation's items and its forecast_items the forecast's items, one for one
\* and in order.
C5_CombinedJoinsBoth ==
    (req.op = "combined" /\ Succeeds("ncst") /\ Succeeds("fcst")
       /\ outcome.kind # "pending")
    => /\ task[1].pc = "done" /\ task[2].pc = "done"
       /\ outcome.kind = "envelope"
       /\ ItemsMatch(outcome.items, AnswerOf("ncst").data.list, "obsrValue")
       /\ ~outcome.forecast_items.is_none
       /\ ItemsMatch(outcome.forecast_items.list, AnswerOf("fcst").data.list, "fcstValue")

\* C5's case: the forecast fetch is done first, with two items, the observation
\* fetch second, with one
C5_Witness ==
    /\ req.op = "combined" /\ outcome.kind = "envelope"
    /\ outer.order = <<2, 1>>
    /\ Len(outcome.items) = 1
    /\ Len(outcome.forecast_items.list) = 2
    /\ outcome.forecast_items.list[1].category = "T1H"
    /\ outcome.forecast_items.list[2].category = "PTY"

\* C6: when a sub-call of the combined query fails, the combined call fails with
\* the error that sub-call raised and returns no envelope, partial or not.
C6_CombinedFailsWithSubcallError ==
    (req.op = "combined" /\ outcome.kind # "pending"
       /\ (~Succeeds("ncst") \/ ~Succeeds("fcst")))
    => /\ outcome.kind = "error"
       /\ \E t \in TaskIds :
             /\ task[t].pc = "done"
             /\ task[t].result.kind = "error"
             /\ outcome = task[t].result

\* C6's case: the observation succeeded, the forecast failed
C6_Witness ==
    /\ req.op = "combined" /\ outcome.kind = "error"
    /\ task[1].pc = "done" /\ task[1].result.kind = "envelope"
    /\ task[2].pc = "done" /\ task[2].result.kind = "error"

\* the children of gather that are done and raised, and the first of them
FailedChildren == {t \in TaskIds : task[t].pc = "done" /\ task[t].result.kind = "error"}

FirstFailed ==
    LET at == CHOOSE i \in 1..Len(outer.order) :
                  /\ outer.order[i] \in FailedChildren
                  /\ \A j \in 1..(i - 1) : outer.order[j] \notin FailedChildren
    IN  outer.order[at]

\* C7: the combined call fails as soon as the first sub-call fails, without
\* waiting for the other; the other is not cancelled (it can still complete),
\* and what it produces later never changes the error the caller gets.
C7_CombinedFailsAtFirstFailure ==
    (req.op = "combined" /\ FailedChildren # {})
    => /\ outer.state = "exception"
       /\ outer.exc = task[FirstFailed].result
       /\ (outcome.kind = "pending" /\ \A u \in TaskIds : task[u].pc \in {"await", "done"})
             => ENABLED CombinedResume
       /\ outcome.kind # "pending" => outcome = task[FirstFailed].result
       /\ \A u \in TaskIds : task[u].pc = "await" => ENABLED Complete(u)

\* C7's case: the observation failed and the caller has the error while the
\* forecast fetch is still in flight
C7_Witness ==
    /\ req.op = "combined"
    /\ task[1].pc = "done" /\ task[1].result.kind = "error"
    /\ task[2].pc = "await"
    /\ outcome.kind = "error"

\* the hours of the day as the upstream expects them
HH ==
    [h \in 0..23 |->
        <<"00", "01", "02", "03", "04", "05", "06", "07", "08", "09", "10", "11",
          "12", "13", "14", "15", "16", "17", "18", "19", "20", "21", "22", "23">>[h + 1]]

\* the GET a step has just issued
LastSent == sent'[Len(sent')]

\* C8 as stated: the two fetches of the combined query are sent with the same
\* publication date and the same publication time, whatever the caller supplied.
C8_SameDateAndTime ==
    (req.op = "combined" /\ Len(sent) = 2)
    => /\ sent[1].base_date = sent[2].base_date
       /\ sent[1].base_time = sent[2].base_time

\* C8 as amended: the two fetches agree on a date or time the caller supplied;
\* when the time is omitted the observation fetch sends HH00 and the forecast
\* fetch HH30, each of the hour it reads; when the date is omitted each sends
\* the date of its own read of the clock.
C8_SuppliedSharedDefaultsApart ==
    (req.op = "combined" /\ Len(sent) = 2)
    => /\ sent[1].endpoint = "getUltraSrtNcst" /\ sent[2].endpoint = "getUltraSrtFcst"
       /\ req.base_date # None
             => (sent[1].base_date = req.base_date /\ sent[2].base_date = req.base_date)
       /\ req.base_time # None
             => (sent[1].base_time = req.base_time /\ sent[2].base_time = req.base_time)
       /\ req.base_time = None
             => /\ sent[1].base_time \in {HH[h] \o "00" : h \in 0..23}
                /\ sent[2].base_time \in {HH[h] \o "30" : h \in 0..23}
                /\ sent[1].base_time # sent[2].base_time
       /\ req.base_date = None
             => \A i \in 1..2 : sent[i].base_date \in {"202401" \o HH[d] : d \in 1..now.day}

\* C8's case: the date supplied, the time omitted, at nine
C8_Witness ==
    /\ req.op = "combined"
    /\ req.base_date = "20231110" /\ req.base_time = None
    /\ Len(sent) = 2
    /\ sent[1].base_time = "0900" /\ sent[2].base_time = "0930"
    /\ sent[1].base_date = "20231110" /\ sent[2].base_date = "20231110"

\* C9: with no publication time supplied, at hour H and any minute, the current
\* observation sends H in two digits followed by "00" and the short-range
\* forecast H in two digits followed by "30".
C9_DefaultTimeOfTheHour ==
    [][ \A t \in TaskIds :
          (task[t].pc = "date" /\ task'[t].pc = "await" /\ req.base_time = None
             /\ task[t].kind \in {"ncst", "fcst"})
          => /\ LastSent.endpoint = Endpoint(task[t].kind)
             /\ LastSent.base_time =
                   HH[now.hour] \o (IF task[t].kind = "ncst" THEN "00" ELSE "30") ]_vars

\* C9's case: at 07:15 the observation was asked for 0700, the forecast for 0730
C9_Witness ==
    /\ now = [day |-> 1, hour |-> 7, minute |-> 15]
    /\ req.base_time = None
    /\ Len(sent) = 2
    /\ sent[1].endpoint = "getUltraSrtNcst" /\ sent[1].base_time = "0700"
    /\ sent[2].endpoint = "getUltraSrtFcst" /\ sent[2].base_time = "0730"

\* the hours of the eight publication slots of the 3-day forecast
SlotHours == {2, 5, 8, 11, 14, 17, 20, 23}

\* the greatest slot hour that is at most h
GreatestSlot(h) ==
    CHOOSE s \in SlotHours : s <= h /\ \A r \in SlotHours : r <= h => r <= s

\* C10: with no publication time supplied, the 3-day forecast sends, at hour H
\* in 2..23, the greatest of the eight slots whose hour is at most H, and at
\* every hour one of the eight slots.
C10_DefaultTimeIsLatestSlot ==
    [][ \A t \in TaskIds :
          (task[t].pc = "date" /\ task'[t].pc = "await" /\ req.base_time = None
             /\ task[t].kind = "vilage")
          => /\ LastSent.endpoint = "getVilageFcst"
             /\ LastSent.base_time \in {HH[s] \o "00" : s \in SlotHours}
             /\ now.hour >= 2 => LastSent.base_time = HH[GreatestSlot(now.hour)] \o "00" ]_vars

\* C10's case: at 07:15 the 3-day forecast was asked for 0500
C10_Witness ==
    /\ now = [day |-> 1, hour |-> 7, minute |-> 15]
    /\ req.op = "vilage" /\ req.base_time = None
    /\ Len(sent) = 1
    /\ sent[1].endpoint = "getVilageFcst" /\ sent[1].base_time = "0500"

-----------------------------------------------------------------------------
(* The 3-day forecast before 02:00 *)

\* the date of the day the clock value t shows, as YYYYMMDD
Today(t) == "202401" \o HH[t.day]

\* C11: a 3-day forecast called with neither date nor time takes the date of the
\* day its clock read shows, and when the hour it then reads is 0 or 1 it sends
\* base_time "2300" together with that date: the date is not moved a day back
C11_BeforeTwoSendsLastSlotWithToday ==
    [][\A t \in TaskIds :
          (task[t].kind = "vilage" /\ req.base_date = None /\ req.base_time = None)
          => /\ (task[t].pc = "start" /\ task'[t].pc = "date")
                => task'[t].base_date = Today(now)
             /\ (task[t].pc = "date" /\ task'[t].pc = "await" /\ now.hour < 2)
                => /\ LastSent.endpoint = "getVilageFcst"
                   /\ LastSent.base_time = "2300"
                   /\ LastSent.base_date = task[t].base_date]_vars

\* a 3-day forecast called at 00:15 or 01:59 of day 1 has sent 2300 of day 1
C11_Witness ==
    /\ req.op = "vilage" /\ req.base_date = None /\ req.base_time = None
    /\ ticks = 0 /\ now.day = 1 /\ now.hour < 2
    /\ sent = << [endpoint |-> "getVilageFcst", base_date |-> "20240101",
                  base_time |-> "2300"] >>

-----------------------------------------------------------------------------
(* The summary *)

\* the items of the observation as the upstream sent them
RawObservation == AnswerOf("ncst").data.list

\* the raw values the upstream sent under a category code
RawValuesOf(category) ==
    { RawObservation[i].obsrValue :
        i \in { j \in 1..Len(RawObservation) : RawObservation[j].category = category } }

\* the field of the summary that the spec gives each category code
SummaryField ==
    [ T1H |-> summary.temperature, REH |-> summary.humidity,
      RN1 |-> summary.precipitation, VEC |-> summary.wind_direction,
      WSD |-> summary.wind_speed ]

\* C12: a summary's temperature, humidity, precipitation, wind_direction and
\* wind_speed are raw values of the items of category T1H, REH, RN1, VEC and WSD
\* (None when no item has the category), and raw_data.categories has exactly one
\* entry for each distinct category code received, with that value and a
\* description
C12_SummaryFieldsAndCategories ==
    outcome.kind = "summary"
    => /\ \A c \in DOMAIN SummaryField :
             IF RawValuesOf(c) = {} THEN SummaryField[c] = None
             ELSE SummaryField[c] \in RawValuesOf(c)
       /\ DOMAIN summary.raw_data.categories
             = { RawObservation[i].category : i \in 1..Len(RawObservation) }
       /\ \A c \in DOMAIN summary.raw_data.categories :
             /\ summary.raw_data.categories[c].value \in RawValuesOf(c)
             /\ c \in DOMAIN SummaryField
                => summary.raw_data.categories[c].value = SummaryField[c]
             /\ summary.raw_data.categories[c].description \notin {None, ""}

\* the summary of an observation that has the five categories
C12_Witness ==
    /\ outcome.kind = "summary"
    /\ summary.temperature = "15.0" /\ summary.humidity = "70"
    /\ summary.precipitation = "0" /\ summary.wind_direction = "270"
    /\ summary.wind_speed = "2.3"
    /\ DOMAIN summary.raw_data.categories = {"T1H", "REH", "RN1", "VEC", "WSD"}

\* the date and the time the summary is to show, from what the upstream sent,
\* what the caller supplied and what the clock shows
ExpectedBaseDate ==
    IF RawObservation # <<>> THEN RawObservation[1].baseDate
    ELSE IF req.base_date # None THEN req.base_date
    ELSE Today(now)

ExpectedBaseTime ==
    IF RawObservation # <<>> THEN RawObservation[1].baseTime
    ELSE IF req.base_time # None THEN req.base_time
    ELSE HH[now.hour] \o "00"

\* C13: the summary's base_date and base_time are the first item's when there is
\* an item; with no item the summary is still returned, and each of the two is
\* the caller's value when supplied, else the date (YYYYMMDD) and the hour (HH00)
\* of the clock at that read
C13_SummaryBaseDateAndTime ==
    [][/\ (summary.pc = "items" /\ summary'.pc = "date")
          => summary'.base_date = ExpectedBaseDate
       /\ (summary.pc = "date" /\ summary'.pc = "done")
          => /\ summary'.base_time = ExpectedBaseTime
             /\ summary'.base_date = summary.base_date
             /\ outcome'.kind = "summary"
       /\ (req.op = "summary" /\ outcome.kind = "pending" /\ outcome'.kind = "error")
          => AnswerOf("ncst").data.headerObj # Header("00", "NORMAL_SERVICE")
             \/ AnswerOf("ncst").transport # "ok"]_vars

\* a summary of an observation without items, called without date and time just
\* before midnight: the date of one day and the hour of the next
C13_Witness ==
    /\ outcome.kind = "summary" /\ RawObservation = <<>>
    /\ req.base_date = None /\ req.base_time = None
    /\ summary.base_date = "20240101" /\ summary.base_time = "0000"

-----------------------------------------------------------------------------
(* One GET per fetch *)

\* how many GETs of the call went to the endpoint
GetsTo(endpoint) == Cardinality({ i \in 1..Len(sent) : sent[i].endpoint = endpoint })

\* the endpoint a single-fetch operation queries
EndpointOfOp(op) ==
    CASE op = "fcst"   -> "getUltraSrtFcst"
      [] op = "vilage" -> "getVilageFcst"
      [] OTHER         -> "getUltraSrtNcst"

\* C14: no retry and no cache: a finished observation, short-range forecast,
\* 3-day forecast or summary call has issued exactly one GET, to its endpoint, and
\* a finished combined call at most two, one per endpoint, whether the call
\* succeeded or failed; at no time has a call issued more
C14_OneGetPerFetch ==
    /\ req.op = "combined"
       => /\ Len(sent) <= 2
          /\ GetsTo("getUltraSrtNcst") <= 1 /\ GetsTo("getUltraSrtFcst") <= 1
          /\ GetsTo("getVilageFcst") = 0
          /\ outcome.kind # "pending" => Len(sent) >= 1
    /\ req.op \in {"ncst", "fcst", "vilage", "summary"}
       => /\ Len(sent) <= 1
          /\ outcome.kind # "pending"
             => Len(sent) = 1 /\ sent[1].endpoint = EndpointOfOp(req.op)

\* a combined call whose observation fetch failed in the transport, finished
C14_Witness ==
    /\ outcome.kind = "error"
    /\ AnswerOf("ncst").transport = "network"
    /\ req.op = "combined"
    /\ Len(sent) = 2

-----------------------------------------------------------------------------
(* Answers without an item list, items with optional fields *)

\* the answer says "00" in a header that is an object
SaysOk(a) ==
    /\ a.transport = "ok"
    /\ a.data.response = "object" /\ a.data.header = "object"
    /\ "resultCode" \in DOMAIN a.data.headerObj
    /\ a.data.headerObj.resultCode = "00"

\* the answer has no item list: no body, no items, no item, or items is null
Listless(a) ==
    /\ a.data.body \in {"absent", "object"}
    /\ \/ a.data.body = "absent"
       \/ a.data.items \in {"absent", "null"}
       \/ a.data.item = "absent"

\* C15 as stated: when the upstream says "00" and the item list is missing (no
\* body, no items, no item, or an absent or null items value), every fetch
\* returns successfully with zero items and never raises.
C15_ListlessIsEmpty ==
    \A t \in TaskIds :
        (task[t].pc = "done" /\ SaysOk(AnswerOf(task[t].kind))
            /\ Listless(AnswerOf(task[t].kind)))
        => /\ task[t].result.kind \in {"envelope", "list"}
           /\ task[t].result.items = <<>>

\* the envelope is well formed down to a list of items
WellFormed(a) ==
    /\ a.data.body = "object" /\ a.data.items = "object" /\ a.data.item = "list"

\* C16 as stated: when the upstream says "00" in a well-formed envelope, no item
\* makes the normalisation fail through its optional fields, whether it omits
\* categoryName, unit and valueDescription or carries one: every item is
\* normalised and the fetch returns.
C16_OptionalFieldsNeverFail ==
    \A t \in TaskIds :
        (task[t].pc = "done" /\ SaysOk(AnswerOf(task[t].kind))
            /\ WellFormed(AnswerOf(task[t].kind)))
        => /\ task[t].result.kind \in {"envelope", "list"}
           /\ Len(task[t].result.items) = Len(AnswerOf(task[t].kind).data.list)

-----------------------------------------------------------------------------
(* The transport client: one, closed once *)

\* C17 as stated: the transport client is a single process-wide instance, the one
\* the service uses for every request, and when the process has shut down it has
\* been closed exactly once, not zero times and not more than once.
C17_OneClientClosedOnceAtShutdown ==
    /\ proc.phase # "import" => proc.service_client = 1
    /\ proc.phase = "exited"
       => /\ proc.created = 1
          /\ proc.closes[1] = 1
          /\ proc.closed[1]

\* C20 as stated: however calls of get_api_client and close_api_client interleave,
\* get_api_client never returns an instance on which close has been started, and
\* close is called on no instance more than once.
C20_NoReturnOfClosingNoDoubleClose ==
    /\ proc.got.closes = 0
    /\ \A i \in Clients : proc.closes[i] <= 1

-----------------------------------------------------------------------------
(* What the caller supplies is what is sent *)

\* the dates and the times the resolver may produce from the model's clock
ClockDates == { "202401" \o HH[d] : d \in 1..(1 + MaxTicks) }

ClockTimes == { HH[h] \o m : h \in 0..23, m \in {"00", "30"} }

\* C18: every GET of a call carries the caller's base_date when one was supplied
\* and the caller's base_time when one was supplied, unchanged; what was omitted
\* is filled from the clock, so that every GET carries a date and a time, and a
\* coroutine at the resolver always gets through it
C18_SuppliedSentUnchanged ==
    /\ \A i \in 1..Len(sent) :
          /\ IF req.base_date # None THEN sent[i].base_date = req.base_date
             ELSE sent[i].base_date \in ClockDates
          /\ IF req.base_time # None THEN sent[i].base_time = req.base_time
             ELSE sent[i].base_time \in ClockTimes
    /\ \A t \in TaskIds :
          /\ (task[t].pc = "start" /\ CanRun(t)) => ENABLED ResolveDate(t)
          /\ task[t].pc = "date" => ENABLED ResolveTimeAndGet(t)
          /\ task[t].pc \in {"await", "done"}
             => task[t].base_date # None /\ task[t].base_time # None

\* a 3-day forecast with a date supplied and the time omitted, called at 07:xx,
\* has sent the date as given and the slot of 05:00
C18_Witness ==
    /\ req.op = "vilage" /\ req.base_date = "20231110" /\ req.base_time = None
    /\ now.hour = 7
    /\ sent = << [endpoint |-> "getVilageFcst", base_date |-> "20231110",
                  base_time |-> "0500"] >>

-----------------------------------------------------------------------------
(* The same fetch twice *)

-----------------------------------------------------------------------------
(* The default date and the default time: one instant? *)

\* the base_time the spec gives an endpoint at hour h
TimeAtHour(endpoint, h) ==
    CASE endpoint = "getUltraSrtNcst" -> HH[h] \o "00"
      [] endpoint = "getUltraSrtFcst" -> HH[h] \o "30"
      [] OTHER -> IF h < 2 THEN "2300" ELSE HH[GreatestSlot(h)] \o "00"

\* the hours, counted from the start of the model's month
HourIndex(day, hour) == day * 24 + hour

\* the (day, hour) pairs the clock has shown since the process started: every
\* advance of the clock moves it by an hour at most
InstantsShown ==
    { t \in (1..(1 + MaxTicks)) \X (0..23) :
        /\ HourIndex(t[1], t[2]) <= HourIndex(now.day, now.hour)
        /\ HourIndex(t[1], t[2]) >= HourIndex(now.day, now.hour) - ticks }

\* C21 as stated: when date and time are both omitted, the date and the time of
\* every GET are those of one instant the clock showed, even when the clock
\* advances, midnight included, between the two reads of the operation.
C21_DateAndTimeOfOneInstant ==
    (req.base_date = None /\ req.base_time = None)
    => \A i \in 1..Len(sent) :
          \E t \in InstantsShown :
             /\ sent[i].base_date = "202401" \o HH[t[1]]
             /\ sent[i].base_time = TimeAtHour(sent[i].endpoint, t[2])

-----------------------------------------------------------------------------
(* The summary of an observation that repeats a category *)

\* the place of the last raw item of the category
LastOf(category) ==
    CHOOSE i \in 1..Len(RawObservation) :
        /\ RawObservation[i].category = category
        /\ \A j \in 1..Len(RawObservation) :
              RawObservation[j].category = category => j <= i

\* C22: when several items of the observation have the same category code, the
\* summary's value for the category and its entry of raw_data.categories are the
\* value of the last of them in the upstream's order, while base_date and
\* base_time are those of the first item of the whole list
C22_LastValueFirstDate ==
    (outcome.kind = "summary" /\ RawObservation # <<>>)
    => /\ \A i \in 1..Len(RawObservation) :
             LET c == RawObservation[i].category
                 v == RawObservation[LastOf(c)].obsrValue
             IN  /\ c \in DOMAIN summary.raw_data.categories
                 /\ summary.raw_data.categories[c].value = v
                 /\ c \in DOMAIN SummaryField => SummaryField[c] = v
       /\ summary.base_date = RawObservation[1].baseDate
       /\ summary.base_time = RawObservation[1].baseTime

\* the summary of two temperatures, the second from a later publication: the
\* second's value with the first's date and time
C22_Witness ==
    /\ outcome.kind = "summary"
    /\ Len(RawObservation) = 2
    /\ RawObservation[1].category = "T1H" /\ RawObservation[1].obsrValue = "15.0"
    /\ RawObservation[2].category = "T1H" /\ RawObservation[2].obsrValue = "16.5"
    /\ summary.temperature = "16.5"
    /\ summary.raw_data.categories["T1H"].value = "16.5"
    /\ summary.base_date = "20240101" /\ summary.base_time = "0700"
    /\ RawObservation[2].baseDate = "20240102"

====
